---- MODULE Spec2Model ----
(***************************************************************************)
(* rambda: a local emulation of the AWS Lambda Runtime Interface.          *)
(*                                                                         *)
(* The model follows src/src/lib.rs and src/src/api.rs:                    *)
(*   - rambda_handler        the caller-facing orchestrator (one task per  *)
(*                           inbound POST /)                               *)
(*   - RequestChannel        the capacity-1 mpsc channel (the rendezvous)  *)
(*   - ResponseMap           r_map / t_map holding the oneshot halves      *)
(*   - RuntimeManager        generate / kill over the RuntimeList          *)
(*   - invocation_next, invocation_response  the worker-facing handlers    *)
(* Each await point of the source where another task can run in between    *)
(* is one step of the model.                                               *)
(*                                                                         *)
(* Two programs are built from the library:                                *)
(*   Spec    src/src/main.rs: the three routes over AppState::new()        *)
(*   SpecGC  src/src/bin/runtime.rs: bootstrap init(), then the routes     *)
(*           and the 1 s gc() loop (gc/init are not in lib.rs as shipped;  *)
(*           they are taken from the design text)                          *)
(* and further specifications look at parts of them:                       *)
(*   FairSpec     Spec with fairly scheduled rambda_handler tasks          *)
(*   SpecCancel   Spec with clients that go away while they wait           *)
(*   SpecLocks    Spec with each Mutex of the ResponseMap taken and given  *)
(*                back in steps of their own                               *)
(*   SpecAnyId    Spec with a caller-supplied gen_id that may repeat ids   *)
(*   SpecGCKill   SpecGC with the worker-facing clients, which gc() kills  *)
(*   SpecExpiry   Runtime::is_expired on any start and clock reading       *)
(*   SpecGcTwice  gc() run twice in a row on any roster                    *)
(***************************************************************************)
EXTENDS Integers, Sequences, FiniteSets, TLC

\* ------------------------------------------------------------- bounds
NumOrch == 2        \* concurrent caller-facing requests (rambda_handler tasks)
NumWorkers == 2     \* clients of the worker-facing routes
MaxRoster == 2      \* cap on the RuntimeList length explored
MaxTime == 3        \* last clock value explored (ms, scaled)
Lifetime == 1       \* runtime lifetime (ms, scaled)
MaxU64 == 7         \* largest u64 value (scaled)

\* ---------------------------------------------------- program constants
Capacity == 1       \* mpsc::channel(1)
BASE_PORT == 8080   \* RuntimeProcessGenerator::BASE_PORT

Orchs == 1..NumOrch
Workers == 1..NumWorkers
None == 0
UnknownId == 0      \* a path id that gen_id never produced
PostIds == {UnknownId} \cup Orchs
\* JSON objects. The handlers never look inside one, so the payloads are the
\* ones the test of lib.rs builds: the i-th request carries event_i and the
\* worker answers event_i with response_i (lines 112-117, 132-136). EmptyJson
\* is the body invocation_response substitutes when the POST has none
\* (api.rs line 127).
EventOf(i) == <<"event", i>>
ResponseOf(e) == <<"response", e[2]>>
EmptyJson == <<"empty", 0>>
NoJson == <<"none", 0>>
NoRuntime == [id |-> 0, port |-> 0, start |-> 0]
NoReply == [status |-> 0, error_type |-> "", text |-> ""]

VARIABLES
    nextId,     \* gen_id: the next fresh id
    opc,        \* rambda_handler task o: its position
    oid,        \* aws_request_id of task o
    oevent,     \* request_event of task o
    ort,        \* the Runtime returned by generator.generate(), not yet added
    orx,        \* the oneshot receiver task o took out of r_map
    result,     \* the EventResponse task o returned
    chan,       \* RequestChannel: the mpsc buffer
    rxOwner,    \* holder of the Mutex around the mpsc receiver
    wpc,        \* worker-facing client w: its position
    wpair,      \* the (id, event) its invocation/next returned
    reply,      \* the last reply invocation_response produced
    r_map,      \* ResponseMap.r_map: set of <<id, oneshot>>
    t_map,      \* ResponseMap.t_map: set of <<id, oneshot>>
    oneshot,    \* oneshot channel created by task o: [st, val]
    locks,      \* holders of the Mutex of r_map and of the Mutex of t_map
    roster,     \* RuntimeManager.runtime_list
    clock,      \* chrono::Utc::now().timestamp_millis()
    gpc,        \* the gc task: its position
    gnow,       \* now, read when the tick started
    gexpired,   \* the ids the tick still has to kill
    sent,       \* history: the pairs try_send accepted
    received,   \* history: the pairs recv returned
    recvCount,  \* history: id -> number of recv calls that returned it
    okDeposits, \* history: id -> responses whose send_response returned Ok
    returned,   \* history: id -> responses get_response returned
    probe       \* a function applied on its own: its inputs and its result

vars == <<nextId, opc, oid, oevent, ort, orx, result, chan, rxOwner, wpc, wpair,
          reply, r_map, t_map, oneshot, locks, roster, clock, gpc, gnow, gexpired,
          sent, received, recvCount, okDeposits, returned, probe>>

orchVars == <<nextId, opc, oid, oevent, ort, orx, result>>
workerVars == <<rxOwner, wpc, wpair, reply>>
mapVars == <<r_map, t_map, oneshot, locks>>
gcVars == <<gpc, gnow, gexpired>>
histVars == <<sent, received, recvCount, okDeposits, returned, probe>>

\* ------------------------------------------------------------ HashMap
\* HashMap::insert replaces the entry of an equal key.
MapInsert(m, k, v) == {e \in m : e[1] # k} \cup {<<k, v>>}
\* HashMap::remove: the map without the key.
MapRemove(m, k) == {e \in m : e[1] # k}
\* Faulty variant of MapGet: the key is not compared.
MapGetAnyKey(m, k) == {e[2] : e \in m}
\* The values stored under k (what HashMap::remove returns, as a set).
MapGet(m, k) == {e[2] : e \in {x \in m : x[1] = k}}

\* No function is applied on its own in the programs.
NoProbe == [fn |-> "none"]

\* The state after construction: AppState::new / main before the first request.
InitState ==
    /\ nextId = 1
    /\ opc = [o \in Orchs |-> "start"]
    /\ oid = [o \in Orchs |-> None]
    /\ oevent = [o \in Orchs |-> NoJson]
    /\ ort = [o \in Orchs |-> NoRuntime]
    /\ orx = [o \in Orchs |-> None]
    /\ result = [o \in Orchs |-> NoJson]
    /\ chan = <<>>
    /\ rxOwner = None
    /\ wpc = [w \in Workers |-> "idle"]
    /\ wpair = [w \in Workers |-> <<>>]
    /\ reply = NoReply
    /\ r_map = {}
    /\ t_map = {}
    /\ oneshot = [o \in Orchs |-> [st |-> "none", val |-> NoJson]]
    /\ locks = [r |-> None, t |-> None]
    /\ roster = <<>>
    /\ clock = 0
    /\ gpc = "boot"
    /\ gnow = 0
    /\ gexpired = <<>>
    /\ sent = {}
    /\ received = {}
    /\ recvCount = [i \in PostIds |-> 0]
    /\ okDeposits = [i \in PostIds |-> <<>>]
    /\ returned = [i \in PostIds |-> <<>>]

Init == InitState /\ probe = NoProbe

\* ------------------------------------------------------ RequestChannel
\* Faulty variant of ChanFull: the buffer is never found full (an unbounded channel).
ChanFullNever(c) == FALSE
\* Faulty variant of ChanFull: one message more than the capacity is taken.
ChanFullOffByOne(c) == Len(c) > Capacity
\* mpsc::Sender::try_send on the bounded channel: Err when no permit is free.
ChanFull(c) == Len(c) >= Capacity
\* mpsc::Receiver::recv: the oldest buffered message, which leaves the buffer.
RecvResult(c) == Head(c)
\* Faulty variant of AfterRecv: the message is read but stays in the buffer.
AfterRecvKeep(c) == c
AfterRecv(c) == Tail(c)

\* Faulty variant of gen_id: every call returns the same id.
gen_id_same(n) == 1
\* gen_id (api.rs rambda, uuid::Uuid::new_v4): the n-th call returns an id no
\* other call returns.
gen_id(n) == n

\* ----------------------------------------------------- RuntimeGenerator
\* RuntimeProcessGenerator::generate: the port is BASE_PORT plus the length of
\* assign_ports (which never changes), the id is "runtime_{port}" and start is now.
\* assign_ports is empty here.
NewRuntime(now) == [id |-> BASE_PORT + 0, port |-> BASE_PORT + 0, start |-> now]

\* Faulty variant of RosterAdd: a runtime whose id is on the list is not added.
RosterAddDedup(l, r) ==
    IF \E i \in 1..Len(l) : l[i].id = r.id THEN l ELSE Append(l, r)
\* RuntimeList::add
RosterAdd(l, r) == Append(l, r)
\* RuntimeList::remove: retain(|r| r.id != *runtime_id)
RosterRemove(l, rid) == SelectSeq(l, LAMBDA r : r.id # rid)

\* The adds that are under way (generate returned, add not yet run).
PendingAdds == Cardinality({o \in Orchs : opc[o] = "add"})

\* ------------------------------------------------------- rambda_handler
\* A worker-facing client is polling when its invocation/next is pending.
Polling(w) == wpc[w] \in {"lock", "recv"}

\* POST / arrives: rambda() starts rambda_handler, which mints its id (line 35)
\* and evaluates the while-let condition for the first time (lines 38-41):
\* send_request, i.e. try_send of (id, event.clone()); nothing is awaited in
\* between. Ok leaves the loop, Err enters its body.
\* Tasks are anonymous, so they are taken in index order.
Arrive(o) ==
    /\ opc[o] = "start"
    /\ \A p \in Orchs : p < o => opc[p] # "start"
    /\ oid' = [oid EXCEPT ![o] = gen_id(nextId)]
    /\ nextId' = nextId + 1
    /\ oevent' = [oevent EXCEPT ![o] = EventOf(nextId)]
    /\ IF ChanFull(chan)
       THEN /\ opc' = [opc EXCEPT ![o] = "spawn"]
            /\ UNCHANGED <<chan, sent>>
       ELSE /\ chan' = Append(chan, <<gen_id(nextId), EventOf(nextId)>>)
            /\ sent' = sent \cup {<<gen_id(nextId), EventOf(nextId)>>}
            /\ opc' = [opc EXCEPT ![o] = "reg_r"]
    /\ UNCHANGED <<ort, orx, result, workerVars, mapVars, roster, clock, gcVars,
                   received, recvCount, okDeposits, returned, probe>>

\* A later evaluation of the while-let condition (lines 38-41), after the loop
\* body has run.
TrySend(o) ==
    /\ opc[o] = "send"
    /\ IF ChanFull(chan)
       THEN /\ opc' = [opc EXCEPT ![o] = "spawn"]
            /\ UNCHANGED <<chan, sent>>
       ELSE /\ chan' = Append(chan, <<oid[o], oevent[o]>>)
            /\ sent' = sent \cup {<<oid[o], oevent[o]>>}
            /\ opc' = [opc EXCEPT ![o] = "reg_r"]
    /\ UNCHANGED <<nextId, oid, oevent, ort, orx, result, workerVars,
                   mapVars, roster, clock, gcVars, received, recvCount,
                   okDeposits, returned, probe>>

\* The loop body (line 44), first half: RuntimeManager::generate awaits
\* generator.generate() (line 317). Err is returned by `?` and unwrap() panics.
Generate(o, ok) ==
    /\ opc[o] = "spawn"
    /\ Len(roster) + PendingAdds < MaxRoster
    /\ IF ok
       THEN /\ ort' = [ort EXCEPT ![o] = NewRuntime(clock)]
            /\ opc' = [opc EXCEPT ![o] = "add"]
       ELSE /\ opc' = [opc EXCEPT ![o] = "panicked"]
            /\ UNCHANGED ort
    /\ UNCHANGED <<nextId, oid, oevent, orx, result, chan, workerVars, mapVars,
                   roster, clock, gcVars, histVars>>

\* The loop body, second half: runtime_list.lock().await.add(runtime) (line 318),
\* then back to the loop condition.
Add(o) ==
    /\ opc[o] = "add"
    /\ roster' = RosterAdd(roster, ort[o])
    /\ ort' = [ort EXCEPT ![o] = NoRuntime]
    /\ opc' = [opc EXCEPT ![o] = "send"]
    /\ UNCHANGED <<nextId, oid, oevent, orx, result, chan,
                   workerVars, mapVars, clock, gcVars, histVars>>

\* Faulty variant of DropReceiver: the channel stays open for the sender.
DropReceiverKeepsOpen(ch) == ch
\* Dropping a oneshot::Receiver closes the channel: a later Sender::send fails,
\* and a value already sent is dropped with it.
DropReceiver(ch) ==
    IF ch.st = "open" THEN [st |-> "rx_dropped", val |-> NoJson]
    ELSE [st |-> "taken", val |-> NoJson]

\* Dropping a oneshot::Sender that has sent nothing: the receiver resolves to an
\* error.
DropSender(ch) ==
    IF ch.st = "open" THEN [st |-> "closed", val |-> NoJson] ELSE ch

\* The oneshot channels after task o put the receiver of a fresh channel into
\* r_map: HashMap::insert returns the receivers the key had, and they are dropped.
AfterInsertR(o, old) ==
    [c \in Orchs |-> IF c = o THEN [st |-> "open", val |-> NoJson]
                     ELSE IF c \in old THEN DropReceiver(oneshot[c])
                     ELSE oneshot[c]]
\* The same for the sender put into t_map.
AfterInsertT(o, old) ==
    [c \in Orchs |-> IF c \in old \ {o} THEN DropSender(oneshot[c])
                     ELSE oneshot[c]]

\* add_new_request, lines 225-226: a fresh oneshot channel, its receiver into r_map.
RegR(o) ==
    /\ opc[o] = "reg_r"
    /\ oneshot' = AfterInsertR(o, MapGet(r_map, oid[o]))
    /\ r_map' = MapInsert(r_map, oid[o], o)
    /\ opc' = [opc EXCEPT ![o] = "reg_t"]
    /\ UNCHANGED <<nextId, oid, oevent, ort, orx, result, chan,
                   workerVars, t_map, locks, roster, clock, gcVars, histVars>>

\* add_new_request, line 227: its sender into t_map.
RegT(o) ==
    /\ opc[o] = "reg_t"
    /\ t_map' = MapInsert(t_map, oid[o], o)
    /\ oneshot' = AfterInsertT(o, MapGet(t_map, oid[o]))
    /\ opc' = [opc EXCEPT ![o] = "get"]
    /\ UNCHANGED <<nextId, oid, oevent, ort, orx, result, chan,
                   workerVars, r_map, locks, roster, clock, gcVars, histVars>>

\* get_response, lines 230-231 and 236-238: the receiver is removed from r_map;
\* without one the result is None, which line 52 unwraps.
GetR(o) ==
    /\ opc[o] = "get"
    /\ r_map' = MapRemove(r_map, oid[o])
    /\ IF MapGet(r_map, oid[o]) = {}
       THEN /\ opc' = [opc EXCEPT ![o] = "panicked"]
            /\ UNCHANGED orx
       ELSE /\ orx' = [orx EXCEPT ![o] = CHOOSE c \in MapGet(r_map, oid[o]) : TRUE]
            /\ opc' = [opc EXCEPT ![o] = "await"]
    /\ UNCHANGED <<nextId, oid, oevent, ort, result, chan,
                   workerVars, t_map, oneshot, locks, roster, clock, gcVars,
                   histVars>>

\* Faulty variant of AwaitReady: the wait gives up on its own.
AwaitReadyAlways(c) == TRUE
\* Faulty variant of AwaitReady: a dropped sender is not noticed.
AwaitReadyOnlySent(c) == oneshot[c].st = "sent"
\* What rx.await resolves to (lines 232-235): the value sent, or None when the
\* sender was dropped; it is pending while the channel is open.
AwaitReady(c) == oneshot[c].st \in {"sent", "closed"}
AwaitValue(c) == IF oneshot[c].st = "sent" THEN oneshot[c].val ELSE NoJson

\* get_response, lines 232-235, and the return of rambda_handler (lines 52-54).
Await(o) ==
    /\ opc[o] = "await"
    /\ AwaitReady(orx[o])
    /\ IF AwaitValue(orx[o]) = NoJson
       THEN /\ opc' = [opc EXCEPT ![o] = "panicked"]
            /\ UNCHANGED <<result, returned>>
       ELSE /\ result' = [result EXCEPT ![o] = AwaitValue(orx[o])]
            /\ returned' = [returned EXCEPT
                              ![oid[o]] = Append(@, AwaitValue(orx[o]))]
            /\ opc' = [opc EXCEPT ![o] = "done"]
    /\ oneshot' = [oneshot EXCEPT ![orx[o]] = [st |-> "taken", val |-> NoJson]]
    /\ UNCHANGED <<nextId, oid, oevent, ort, orx, chan, workerVars,
                   r_map, t_map, locks, roster, clock, gcVars, sent, received,
                   recvCount, okDeposits, probe>>

\* -------------------------------------------------- invocation_next_handler
\* GET invocation/next arrives: recv_request starts with rx.lock() (line 189).
\* Idle clients are alike, so the one of least index goes first.
NextPoll(w) ==
    /\ wpc[w] = "idle"
    /\ \A v \in Workers : v < w => wpc[v] # "idle"
    /\ wpc' = [wpc EXCEPT ![w] = "lock"]
    /\ UNCHANGED <<rxOwner, wpair, reply, orchVars, chan, mapVars, roster, clock,
                   gcVars, histVars>>

\* The Mutex around the receiver is granted.
LockRx(w) ==
    /\ wpc[w] = "lock"
    /\ rxOwner = None
    /\ rxOwner' = w
    /\ wpc' = [wpc EXCEPT ![w] = "recv"]
    /\ UNCHANGED <<wpair, reply, orchVars, chan, mapVars, roster, clock, gcVars,
                   histVars>>

\* recv() resolves with the buffered pair; the guard is dropped and the handler
\* returns the pair as it is (lines 61-62, 189-190). The senders live in every
\* clone of RequestChannel, so recv() never resolves to None.
RecvRequest(w) ==
    /\ wpc[w] = "recv"
    /\ rxOwner = w
    /\ chan # <<>>
    /\ wpair' = [wpair EXCEPT ![w] = RecvResult(chan)]
    /\ chan' = AfterRecv(chan)
    /\ received' = received \cup {RecvResult(chan)}
    /\ recvCount' = [recvCount EXCEPT ![RecvResult(chan)[1]] = @ + 1]
    /\ rxOwner' = None
    /\ wpc' = [wpc EXCEPT ![w] = "got"]
    /\ UNCHANGED <<reply, orchVars, mapVars, roster, clock, gcVars, sent,
                   okDeposits, returned, probe>>

\* ------------------------------------------------------ invocation_response
\* api.rs invocation_response, lines 130-144: the reply for send_result.
Accepted == [status |-> 202, error_type |-> "", text |-> "OK"]
InternalError(msg) == [status |-> 500, error_type |-> "NoResponse", text |-> msg]
\* Faulty variant of ReplyFor: the error of send_response is dropped.
ReplyAlwaysAccepted(res) == Accepted
ReplyFor(res) == IF res = "Ok" THEN Accepted ELSE InternalError(res)

\* Faulty variant of SendResult: a missing sender is not an error.
SendResultLenient(txs) ==
    IF txs = {} \/ \A c \in txs : oneshot[c].st = "open" THEN "Ok"
    ELSE "Failed to send response"
\* send_response, lines 245-251: what it returns for the senders found under the
\* id. oneshot::Sender::send fails only when the receiver was dropped.
SendResult(txs) ==
    IF txs = {} THEN "Sender already taken"
    ELSE IF \A c \in txs : oneshot[c].st = "open" THEN "Ok"
    ELSE "Failed to send response"

\* register(id) has completed: the task that minted id is past line 227.
Registered(id) ==
    \E o \in Orchs : oid[o] = id /\ opc[o] \in {"get", "await", "done"}

\* send_response (lines 245-251) once it has the Mutex of t_map, up to the
\* reply invocation_response builds from its result.
SendResponse(id, r) ==
    /\ t_map' = MapRemove(t_map, id)
    /\ oneshot' = [c \in Orchs |->
                     IF c \in MapGet(t_map, id) /\ oneshot[c].st = "open"
                     THEN [st |-> "sent", val |-> r]
                     ELSE oneshot[c]]
    /\ reply' = ReplyFor(SendResult(MapGet(t_map, id)))
    /\ okDeposits' = [okDeposits EXCEPT
                        ![id] = IF SendResult(MapGet(t_map, id)) = "Ok"
                                THEN Append(@, r) ELSE @]
    /\ UNCHANGED <<rxOwner, orchVars, chan, r_map, roster, clock, gcVars, sent,
                   received, recvCount, returned, probe>>

\* POST invocation/{id}/response: invocation_response_handler runs send_response
\* (lines 74-76), which takes and gives back the Mutex of t_map within one
\* statement (line 245), and invocation_response builds the reply.
Deposit(id, r) ==
    /\ SendResponse(id, r)
    /\ UNCHANGED locks

\* The worker that received (id, event) posts its response to the event under
\* that id.
PostResponse(w) ==
    /\ wpc[w] = "got"
    /\ Deposit(wpair[w][1], ResponseOf(wpair[w][2]))
    /\ wpc' = [wpc EXCEPT ![w] = "idle"]
    /\ wpair' = [wpair EXCEPT ![w] = <<>>]

\* Some client posts, without a body, to an id of its choosing: the route takes
\* any path id, whether or not an invocation/next handed it out.
PostUnsolicited(id) ==
    /\ Deposit(id, EmptyJson)
    /\ UNCHANGED <<wpc, wpair>>

OrchStep(o) ==
    \/ Arrive(o)
    \/ TrySend(o)
    \/ \E ok \in BOOLEAN : Generate(o, ok)
    \/ Add(o)
    \/ RegR(o)
    \/ RegT(o)
    \/ GetR(o)
    \/ Await(o)

WorkerStep(w) ==
    \/ NextPoll(w)
    \/ LockRx(w)
    \/ RecvRequest(w)
    \/ PostResponse(w)

Next ==
    \/ \E o \in Orchs : OrchStep(o)
    \/ \E w \in Workers : WorkerStep(w)
    \/ \E id \in PostIds : PostUnsolicited(id)

Spec == Init /\ [][Next]_vars

\* ------------------------------------------------- bin/runtime.rs: gc loop
\* Runtime::is_expired (lines 373-376): now - start > lifetime on u64
\* milliseconds; start is never later than now here (the clock does not go back).
is_expired(r, now) == now - r.start > Lifetime

\* The ids of the expired entries, in roster order.
RECURSIVE ExpiredIds(_, _)
ExpiredIds(l, now) ==
    IF l = <<>> THEN <<>>
    ELSE IF is_expired(Head(l), now)
         THEN <<Head(l).id>> \o ExpiredIds(Tail(l), now)
         ELSE ExpiredIds(Tail(l), now)

\* main, line 23: manager.init().await.unwrap() before the server listens.
\* init() is generate(): the runtime the generator returns is added.
Bootstrap(ok) ==
    /\ gpc = "boot"
    /\ IF ok
       THEN /\ roster' = RosterAdd(roster, NewRuntime(clock))
            /\ gpc' = "idle"
       ELSE /\ gpc' = "down"
            /\ UNCHANGED roster
    /\ UNCHANGED <<orchVars, chan, workerVars, mapVars, clock, gnow, gexpired,
                   histVars>>

\* A tick of the loop of main (lines 41-46) starts: gc() reads now and, under
\* the roster lock, collects the expired ids.
GcStart ==
    /\ gpc = "idle"
    /\ gnow' = clock
    /\ gexpired' = ExpiredIds(roster, clock)
    /\ gpc' = "kill"
    /\ UNCHANGED <<orchVars, chan, workerVars, mapVars, roster, clock, histVars>>

\* gc() kills the next expired id: RuntimeManager::kill (lines 333-336) awaits
\* generator.kill(id), unwraps its result and removes the id from the roster.
GcKill(ok) ==
    /\ gpc = "kill"
    /\ gexpired # <<>>
    /\ IF ok
       THEN /\ roster' = RosterRemove(roster, Head(gexpired))
            /\ gexpired' = Tail(gexpired)
            /\ UNCHANGED gpc
       ELSE /\ gpc' = "panicked"
            /\ UNCHANGED <<roster, gexpired>>
    /\ UNCHANGED <<orchVars, chan, workerVars, mapVars, clock, gnow, histVars>>

\* gc() ends: if the roster is empty it calls init() once, and the tick returns
\* whether or not the spawn succeeded.
GcRefill(ok) ==
    /\ gpc = "kill"
    /\ gexpired = <<>>
    /\ roster' = IF roster = <<>> /\ ok
                 THEN RosterAdd(roster, NewRuntime(clock))
                 ELSE roster
    /\ gpc' = "idle"
    /\ UNCHANGED <<orchVars, chan, workerVars, mapVars, clock, gnow, gexpired,
                   histVars>>

\* The server is up: bootstrap succeeded.
Serving == gpc \notin {"boot", "down"}

\* Time passes (followed from the moment the server is up).
Tick ==
    /\ Serving
    /\ clock < MaxTime
    /\ clock' = clock + 1
    /\ UNCHANGED <<orchVars, chan, workerVars, mapVars, roster, gcVars, histVars>>

\* The try-send loop of a rambda_handler task, the part of it that reaches the
\* roster.
LoopStep(o) ==
    /\ Serving
    /\ \/ Arrive(o)
       \/ TrySend(o)
       \/ \E ok \in BOOLEAN : Generate(o, ok)
       \/ Add(o)

NextGC ==
    \/ \E ok \in BOOLEAN : Bootstrap(ok)
    \/ GcStart
    \/ \E ok \in BOOLEAN : GcKill(ok)
    \/ \E ok \in BOOLEAN : GcRefill(ok)
    \/ Tick
    \/ \E o \in Orchs : LoopStep(o)

SpecGC == Init /\ [][NextGC]_vars

\* Tasks of the runtime are scheduled fairly: a rambda_handler task that can
\* take a step eventually takes one. Requests of the clients are not forced.
FairSpec == Spec /\ \A o \in Orchs : WF_vars(OrchStep(o))

\* ------------------------------------------------------------ cancellation
\* The caller of POST / goes away while rambda_handler is suspended in rx.await
\* (lines 52, 232): the future is dropped and with it the receiver that
\* get_response took out of r_map. The sender stays in t_map.
CancelAwait(o) ==
    /\ opc[o] = "await"
    /\ opc' = [opc EXCEPT ![o] = "cancelled"]
    /\ oneshot' = [oneshot EXCEPT ![orx[o]] = DropReceiver(@)]
    /\ UNCHANGED <<nextId, oid, oevent, ort, orx, result, chan, workerVars,
                   r_map, t_map, locks, roster, clock, gcVars, histVars>>

\* Faulty variant of DropRxGuard: the Mutex stays with the task that went away.
DropRxGuardLeaks(owner, w) == owner
\* Dropping the future of recv_request drops the MutexGuard it may hold.
DropRxGuard(owner, w) == IF owner = w THEN None ELSE owner

\* The client of invocation/next goes away while recv_request is suspended
\* (line 189), queued for the Mutex or, holding it, in recv(): the future is
\* dropped. Neither Mutex::lock nor Receiver::recv takes a message when it is
\* dropped before it completes.
CancelPoll(w) ==
    /\ Polling(w)
    /\ wpc' = [wpc EXCEPT ![w] = IF wpc[w] = "lock" THEN "cancelled_lock"
                                 ELSE "cancelled_recv"]
    /\ rxOwner' = DropRxGuard(rxOwner, w)
    /\ UNCHANGED <<wpair, reply, orchVars, chan, mapVars, roster, clock, gcVars,
                   histVars>>

NextCancel ==
    \/ Next
    \/ \E o \in Orchs : CancelAwait(o)
    \/ \E w \in Workers : CancelPoll(w)

\* The routes of src/main.rs with clients that may go away while they wait.
SpecCancel == Init /\ [][NextCancel]_vars

\* -------------------------------------------- Runtime::is_expired on u64
\* u64 values, scaled: 0 .. MaxU64.
U64 == 0..MaxU64
\* a - b on u64 when a < b: the subtraction overflows. A build with overflow
\* checks panics, a build without them wraps modulo 2^64.
WrapSub(a, b) == (a - b) % (MaxU64 + 1)
\* What is_expired (lines 373-376) can do for a runtime started at start when
\* the clock reads now.
IsExpiredOutcomes(start, now) ==
    IF now < start
    THEN {"panic", IF WrapSub(now, start) > Lifetime THEN "true" ELSE "false"}
    ELSE {IF is_expired([start |-> start], now) THEN "true" ELSE "false"}

\* A runtime with any start, and any reading of the wall clock.
InitExpiry ==
    /\ InitState
    /\ probe \in {[fn |-> "is_expired", start |-> s, now |-> n, out |-> "unset"] :
                    s \in U64, n \in U64}

\* is_expired is called.
ApplyIsExpired ==
    /\ probe.fn = "is_expired"
    /\ probe.out = "unset"
    /\ \E r \in IsExpiredOutcomes(probe.start, probe.now) :
         probe' = [probe EXCEPT !.out = r]
    /\ UNCHANGED <<orchVars, chan, workerVars, mapVars, roster, clock, gcVars,
                   sent, received, recvCount, okDeposits, returned>>

NextExpiry == ApplyIsExpired

SpecExpiry == InitExpiry /\ [][NextExpiry]_vars

\* ------------------------------------------------- gc() run on its own
\* The roster after every id of ids was killed (each kill succeeding).
RECURSIVE KillAll(_, _)
KillAll(l, ids) ==
    IF ids = <<>> THEN l ELSE KillAll(RosterRemove(l, Head(ids)), Tail(ids))

\* The roster a whole gc() tick leaves when nothing else runs meanwhile: the
\* expired entries are killed and removed, and an empty roster is refilled by
\* one init(), which adds a runtime only when the spawn succeeds.
GcRun(l, now, spawnOk) ==
    IF KillAll(l, ExpiredIds(l, now)) = <<>> /\ spawnOk
    THEN RosterAdd(KillAll(l, ExpiredIds(l, now)), NewRuntime(now))
    ELSE KillAll(l, ExpiredIds(l, now))

\* The rosters generate() can build: runtimes started at times up to MaxTime.
Rosters ==
    UNION {[1..n -> {NewRuntime(s) : s \in 0..MaxTime}] : n \in 0..MaxRoster}

\* Any roster, at any time that is not before the start of one of its entries.
InitGcTwice ==
    /\ InitState
    /\ probe \in {[fn |-> "gc", roster |-> l, now |-> n, ticks |-> 0,
                   once |-> <<>>, twice |-> <<>>] :
                    l \in Rosters, n \in 0..MaxTime}
    /\ \A i \in 1..Len(probe.roster) : probe.roster[i].start <= probe.now

\* The first gc().
ApplyGcOnce(ok) ==
    /\ probe.fn = "gc"
    /\ probe.ticks = 0
    /\ probe' = [probe EXCEPT !.ticks = 1,
                              !.once = GcRun(probe.roster, probe.now, ok)]
    /\ UNCHANGED <<orchVars, chan, workerVars, mapVars, roster, clock, gcVars,
                   sent, received, recvCount, okDeposits, returned>>

\* The second gc(), run on what the first one left, at the same time.
ApplyGcTwice(ok) ==
    /\ probe.fn = "gc"
    /\ probe.ticks = 1
    /\ probe' = [probe EXCEPT !.ticks = 2,
                              !.twice = GcRun(probe.once, probe.now, ok)]
    /\ UNCHANGED <<orchVars, chan, workerVars, mapVars, roster, clock, gcVars,
                   sent, received, recvCount, okDeposits, returned>>

NextGcTwice ==
    \/ \E ok \in BOOLEAN : ApplyGcOnce(ok)
    \/ \E ok \in BOOLEAN : ApplyGcTwice(ok)

SpecGcTwice == InitGcTwice /\ [][NextGcTwice]_vars

\* ------------------------------------------- ResponseMap, lock by lock
\* The tasks that use the ResponseMap, as the holders recorded in locks.
TaskO(o) == o
TaskW(w) == NumOrch + w
\* Faulty variant of ReleaseGuard: the guard lives on to the end of the function.
KeepGuard(task) == task
\* The MutexGuard is a temporary of the statement that locks (lines 226, 227,
\* 230, 245): it is dropped, and the Mutex is free, when the statement ends.
ReleaseGuard(task) == None

\* self.r_map.lock().await of add_new_request (line 226) or of get_response
\* (line 230) is granted.
AcquireRMap(o) ==
    /\ opc[o] \in {"reg_r", "get"}
    /\ locks.r = None
    /\ locks' = [locks EXCEPT !.r = TaskO(o)]
    /\ opc' = [opc EXCEPT ![o] = IF opc[o] = "reg_r" THEN "reg_r_locked"
                                 ELSE "get_locked"]
    /\ UNCHANGED <<nextId, oid, oevent, ort, orx, result, chan, workerVars,
                   r_map, t_map, oneshot, roster, clock, gcVars, histVars>>

\* add_new_request, lines 225-226, under the Mutex of r_map.
InsertR(o) ==
    /\ opc[o] = "reg_r_locked"
    /\ oneshot' = AfterInsertR(o, MapGet(r_map, oid[o]))
    /\ r_map' = MapInsert(r_map, oid[o], o)
    /\ locks' = [locks EXCEPT !.r = ReleaseGuard(TaskO(o))]
    /\ opc' = [opc EXCEPT ![o] = "reg_t"]
    /\ UNCHANGED <<nextId, oid, oevent, ort, orx, result, chan, workerVars,
                   t_map, roster, clock, gcVars, histVars>>

\* self.t_map.lock().await of add_new_request (line 227) is granted.
AcquireTMap(o) ==
    /\ opc[o] = "reg_t"
    /\ locks.t = None
    /\ locks' = [locks EXCEPT !.t = TaskO(o)]
    /\ opc' = [opc EXCEPT ![o] = "reg_t_locked"]
    /\ UNCHANGED <<nextId, oid, oevent, ort, orx, result, chan, workerVars,
                   r_map, t_map, oneshot, roster, clock, gcVars, histVars>>

\* add_new_request, line 227, under the Mutex of t_map.
InsertT(o) ==
    /\ opc[o] = "reg_t_locked"
    /\ t_map' = MapInsert(t_map, oid[o], o)
    /\ oneshot' = AfterInsertT(o, MapGet(t_map, oid[o]))
    /\ locks' = [locks EXCEPT !.t = ReleaseGuard(TaskO(o))]
    /\ opc' = [opc EXCEPT ![o] = "get"]
    /\ UNCHANGED <<nextId, oid, oevent, ort, orx, result, chan, workerVars,
                   r_map, roster, clock, gcVars, histVars>>

\* get_response, line 230, under the Mutex of r_map; then lines 231, 236-238.
RemoveR(o) ==
    /\ opc[o] = "get_locked"
    /\ r_map' = MapRemove(r_map, oid[o])
    /\ locks' = [locks EXCEPT !.r = ReleaseGuard(TaskO(o))]
    /\ IF MapGet(r_map, oid[o]) = {}
       THEN /\ opc' = [opc EXCEPT ![o] = "panicked"]
            /\ UNCHANGED orx
       ELSE /\ orx' = [orx EXCEPT ![o] = CHOOSE c \in MapGet(r_map, oid[o]) : TRUE]
            /\ opc' = [opc EXCEPT ![o] = "await"]
    /\ UNCHANGED <<nextId, oid, oevent, ort, result, chan, workerVars,
                   t_map, oneshot, roster, clock, gcVars, histVars>>

\* POST invocation/{id}/response arrives from the worker that received the pair:
\* send_response starts with self.t_map.lock() (line 245).
StartPost(w) ==
    /\ wpc[w] = "got"
    /\ wpc' = [wpc EXCEPT ![w] = "dep"]
    /\ UNCHANGED <<rxOwner, wpair, reply, orchVars, chan, mapVars, roster, clock,
                   gcVars, histVars>>

\* The same POST from a client that polled nothing, for an id of its choosing
\* and without a body.
StartUnsolicited(w, id) ==
    /\ wpc[w] = "idle"
    /\ wpc' = [wpc EXCEPT ![w] = "dep"]
    /\ wpair' = [wpair EXCEPT ![w] = <<id, EmptyJson>>]
    /\ UNCHANGED <<rxOwner, reply, orchVars, chan, mapVars, roster, clock,
                   gcVars, histVars>>

\* self.t_map.lock().await of send_response (line 245) is granted.
AcquireTMapW(w) ==
    /\ wpc[w] = "dep"
    /\ locks.t = None
    /\ locks' = [locks EXCEPT !.t = TaskW(w)]
    /\ wpc' = [wpc EXCEPT ![w] = "dep_locked"]
    /\ UNCHANGED <<rxOwner, wpair, reply, orchVars, chan, r_map, t_map, oneshot,
                   roster, clock, gcVars, histVars>>

\* The body the POST carries: the response to the event received, or the empty
\* object.
BodyOf(pair) == IF pair[2] = EmptyJson THEN EmptyJson ELSE ResponseOf(pair[2])

\* send_response, lines 245-251, under the Mutex of t_map for line 245.
RemoveTAndSend(w) ==
    /\ wpc[w] = "dep_locked"
    /\ SendResponse(wpair[w][1], BodyOf(wpair[w]))
    /\ locks' = [locks EXCEPT !.t = ReleaseGuard(TaskW(w))]
    /\ wpc' = [wpc EXCEPT ![w] = "idle"]
    /\ wpair' = [wpair EXCEPT ![w] = <<>>]

OrchStepLocks(o) ==
    \/ Arrive(o)
    \/ TrySend(o)
    \/ \E ok \in BOOLEAN : Generate(o, ok)
    \/ Add(o)
    \/ AcquireRMap(o)
    \/ InsertR(o)
    \/ AcquireTMap(o)
    \/ InsertT(o)
    \/ RemoveR(o)
    \/ Await(o)

WorkerStepLocks(w) ==
    \/ NextPoll(w)
    \/ LockRx(w)
    \/ RecvRequest(w)
    \/ StartPost(w)
    \/ \E id \in PostIds : StartUnsolicited(w, id)
    \/ AcquireTMapW(w)
    \/ RemoveTAndSend(w)

NextLocks ==
    \/ \E o \in Orchs : OrchStepLocks(o)
    \/ \E w \in Workers : WorkerStepLocks(w)

\* The routes of src/main.rs, each Mutex of the ResponseMap taken and given
\* back in steps of their own.
SpecLocks == Init /\ [][NextLocks]_vars

\* ---------------------------------------------- a caller-supplied gen_id
\* rambda_handler takes gen_id from its caller (line 33) and nothing makes the
\* ids it returns distinct: the test of lib.rs passes a closure that returns a
\* fixed string. POST / arrives and gen_id returns id; the rest is as in Arrive.
ArriveWithId(o, id) ==
    /\ opc[o] = "start"
    /\ \A p \in Orchs : p < o => opc[p] # "start"
    /\ oid' = [oid EXCEPT ![o] = id]
    /\ oevent' = [oevent EXCEPT ![o] = EventOf(o)]
    /\ IF ChanFull(chan)
       THEN /\ opc' = [opc EXCEPT ![o] = "spawn"]
            /\ UNCHANGED <<chan, sent>>
       ELSE /\ chan' = Append(chan, <<id, EventOf(o)>>)
            /\ sent' = sent \cup {<<id, EventOf(o)>>}
            /\ opc' = [opc EXCEPT ![o] = "reg_r"]
    /\ UNCHANGED <<nextId, ort, orx, result, workerVars, mapVars, roster, clock,
                   gcVars, received, recvCount, okDeposits, returned, probe>>

OrchStepAnyId(o) ==
    \/ \E id \in Orchs : ArriveWithId(o, id)
    \/ TrySend(o)
    \/ \E ok \in BOOLEAN : Generate(o, ok)
    \/ Add(o)
    \/ RegR(o)
    \/ RegT(o)
    \/ GetR(o)
    \/ Await(o)

NextAnyId ==
    \/ \E o \in Orchs : OrchStepAnyId(o)
    \/ \E w \in Workers : WorkerStep(w)
    \/ \E id \in PostIds : PostUnsolicited(id)

\* The handlers of lib.rs under callers whose gen_id may repeat an id.
SpecAnyId == Init /\ [][NextAnyId]_vars

\* --------------------------------------- gc() killing a polling process
\* gc() kills an expired runtime, as in GcKill, and the process killed is the
\* client w of the worker-facing routes: it makes no further request, and a
\* poll it had pending is dropped with its connection. The roster does not
\* record which request a runtime is working on, so w is any client.
GcKillProcess(w) ==
    /\ gpc = "kill"
    /\ gexpired # <<>>
    /\ wpc[w] # "killed"
    /\ roster' = RosterRemove(roster, Head(gexpired))
    /\ gexpired' = Tail(gexpired)
    /\ wpc' = [wpc EXCEPT ![w] = "killed"]
    /\ rxOwner' = DropRxGuard(rxOwner, w)
    /\ UNCHANGED <<wpair, reply, orchVars, chan, mapVars, clock, gpc, gnow,
                   histVars>>

\* The routes, served once bootstrap succeeded.
ServeStep == Serving /\ Next

NextGCKill ==
    \/ \E ok \in BOOLEAN : Bootstrap(ok)
    \/ GcStart
    \/ \E ok \in BOOLEAN : GcKill(ok)
    \/ \E w \in Workers : GcKillProcess(w)
    \/ \E ok \in BOOLEAN : GcRefill(ok)
    \/ Tick
    \/ ServeStep

\* src/src/bin/runtime.rs with its clients: the routes and the gc loop.
SpecGCKill == Init /\ [][NextGCKill]_vars

\* ================================================================ claims
Range(q) == {q[i] : i \in 1..Len(q)}
\* try_send has accepted the pair of task o.
SendAccepted(o) == opc[o] \in {"reg_r", "reg_t", "get", "await", "done"}

\* C1: for every id, at most one send_response returned Ok and at most one
\* get_response returned a response, and r_map and t_map each hold at most one
\* half under the id.
C1_AtMostOneDepositAndAwait ==
    \A id \in PostIds :
        /\ Len(okDeposits[id]) <= 1
        /\ Len(returned[id]) <= 1
        /\ Cardinality(MapGet(t_map, id)) <= 1
        /\ Cardinality(MapGet(r_map, id)) <= 1
\* Two deposits were made for a minted id (one by the worker that received it,
\* one unsolicited); one of them returned Ok and the await returned its value.
C1_Witness ==
    \E o \in Orchs :
        /\ opc[o] = "done"
        /\ okDeposits[oid[o]] = <<EmptyJson>>
        /\ returned[oid[o]] = <<EmptyJson>>
        /\ recvCount[oid[o]] = 1
        /\ \A w \in Workers : wpair[w] = <<>>

\* C2: every response get_response has returned for an id is a response some
\* send_response for that id had deposited with Ok before.
C2_AwaitReturnsDeposited ==
    \A id \in PostIds : Range(returned[id]) \subseteq Range(okDeposits[id])
\* An await has returned the response the worker deposited.
C2_Witness ==
    \E o \in Orchs :
        /\ returned[oid[o]] = <<ResponseOf(oevent[o])>>
        /\ okDeposits[oid[o]] = <<ResponseOf(oevent[o])>>

\* C3: a rambda_handler call that has returned, returned once, and what it
\* returned was deposited under its own id; it is never the response to the
\* event of another call.
C3_NoCrossTalk ==
    \A o \in Orchs :
        /\ result[o] # NoJson => opc[o] = "done"
        /\ opc[o] = "done" =>
            /\ returned[oid[o]] = <<result[o]>>
            /\ result[o] \in Range(okDeposits[oid[o]])
            /\ \A p \in Orchs \ {o} :
                 /\ oid[p] # oid[o]
                 /\ opc[p] # "start" => result[o] # ResponseOf(oevent[p])
\* Two calls were in flight and each has returned the response to its own event.
C3_Witness ==
    \E o, p \in Orchs :
        /\ o # p
        /\ opc[o] = "done" /\ result[o] = ResponseOf(oevent[o])
        /\ opc[p] = "done" /\ result[p] = ResponseOf(oevent[p])

\* C4: every pair try_send accepted is either still buffered or was returned by
\* exactly one recv, unchanged; recv returns nothing that was not sent.
C4_PairDeliveredOnce ==
    /\ \A pr \in sent :
         recvCount[pr[1]] + (IF pr \in Range(chan) THEN 1 ELSE 0) = 1
    /\ received \subseteq sent
    /\ Range(chan) \subseteq sent
    /\ \A w \in Workers : wpair[w] # <<>> => wpair[w] \in sent
    /\ \A v, w \in Workers : v # w /\ wpair[v] # <<>> => wpair[v] # wpair[w]
\* Two polls hold the two pairs that were sent.
C4_Witness ==
    \E v, w \in Workers :
        /\ v # w
        /\ wpair[v] = <<1, EventOf(1)>>
        /\ wpair[w] = <<2, EventOf(2)>>

\* C5: the mpsc buffer never holds more than one (id, event) pair.
C5_SlotHoldsAtMostOne == Len(chan) <= 1
\* The slot is occupied, a producer has found it full and a consumer is waiting
\* for the receiver.
C5_Witness ==
    /\ Len(chan) = 1
    /\ \E o \in Orchs : opc[o] = "spawn"
    /\ \E w \in Workers : wpc[w] = "lock"

\* C6 (as claimed): whenever the worker that received (id, event) posts its
\* response, register(id) has completed.
C6_DepositAfterRegister ==
    [][\A w \in Workers :
         (wpc[w] = "got" /\ wpc'[w] = "idle") => Registered(wpair[w][1])]_vars

\* The worker that received the pair of task o has posted its response.
Posted(o) ==
    /\ SendAccepted(o)
    /\ recvCount[oid[o]] >= 1
    /\ \A w \in Workers : wpair[w] = <<>> \/ wpair[w][1] # oid[o]

\* C7 (as claimed): once the worker that received the pair of a call has posted
\* its response, the call eventually returns.
C7_PostedLeadsToDone ==
    \A o \in Orchs : Posted(o) ~> (opc[o] = "done")

\* C8 (as claimed): a call that arrives while no invocation/next is pending
\* enters the loop body, the only place where it calls generate().
C8_QuietArrivalSpawns ==
    [][\A o \in Orchs :
         (opc[o] = "start" /\ opc'[o] # "start" /\ ~ \E w \in Workers : Polling(w))
            => opc'[o] = "spawn"]_vars

\* C9 (as claimed): when a gc() tick returns, the roster holds at least one
\* runtime and none whose start + lifetime is before the now the tick read.
C9_AfterGcFreshAndNonEmpty ==
    [][(gpc = "kill" /\ gpc' = "idle") =>
         /\ Len(roster') >= 1
         /\ \A i \in 1..Len(roster') : ~(roster'[i].start + Lifetime < gnow)]_vars

\* C10: a send_response that finds no sender under the id is answered with
\* status 500 and errorType "NoResponse", and leaves r_map, t_map and every
\* oneshot channel as they were.
C10_NoMailboxIs500 ==
    [][\A id \in PostIds, r \in {EmptyJson} \cup {ResponseOf(EventOf(i)) : i \in Orchs} :
         (Deposit(id, r) /\ MapGet(t_map, id) = {}) =>
            /\ reply'.status = 500
            /\ reply'.error_type = "NoResponse"
            /\ reply'.text = "Sender already taken"
            /\ UNCHANGED <<r_map, t_map, oneshot, okDeposits>>]_vars
\* A deposit was refused for an id whose sender an earlier deposit had taken,
\* and one for the id that was never registered.
C10_Witness ==
    /\ reply = InternalError("Sender already taken")
    /\ \E id \in PostIds : okDeposits[id] # <<>> /\ MapGet(t_map, id) = {}

\* C11 (as claimed): when generator.generate() returns an error inside the
\* try-send loop, the call does not panic: it goes on to the next evaluation of
\* the loop condition (a successful spawn goes on to the add).
C11_SpawnErrorNotFatal ==
    [][\A o \in Orchs :
         (opc[o] = "spawn" /\ opc'[o] # "spawn") => opc'[o] \in {"add", "send"}]_vars

\* C12 (as claimed): a kill whose generator.kill() returns an error does not
\* panic and still removes the runtime's entry from the roster.
C12_KillErrorStillRemoves ==
    [][(gpc = "kill" /\ gexpired # <<>> /\ (gexpired' # gexpired \/ gpc' # gpc)) =>
           /\ gpc' # "panicked"
           /\ \A i \in 1..Len(roster') : roster'[i].id # Head(gexpired)]_vars

\* The call with id was cancelled while it awaited its response.
CancelledAwait(id) ==
    \E o \in Orchs : oid[o] = id /\ opc[o] = "cancelled" /\ orx[o] # None

\* C13: once a call was cancelled in its await, every deposit for its id is
\* answered with an internal error (status 500), the call returns no response,
\* no get_response returns one for the id, and its pair was handed to at most
\* one recv.
C13_CancelledAwaitDepositFails ==
    [][\A o \in Orchs :
         (opc[o] = "cancelled" /\ orx[o] # None) =>
            /\ \A r \in {EmptyJson} \cup {ResponseOf(EventOf(i)) : i \in Orchs} :
                 Deposit(oid[o], r) =>
                    /\ reply'.status = 500
                    /\ reply'.error_type = "NoResponse"
                    /\ okDeposits'[oid[o]] = okDeposits[oid[o]]
            /\ opc'[o] = "cancelled"
            /\ result'[o] = NoJson
            /\ returned'[oid[o]] = <<>>
            /\ recvCount'[oid[o]] <= 1]_vars
\* A call was cancelled in its await before the worker that had received its
\* pair posted; the worker's deposit found the sender and failed on the send.
C13_Witness ==
    \E o \in Orchs :
        /\ CancelledAwait(oid[o])
        /\ okDeposits[oid[o]] = <<>>
        /\ recvCount[oid[o]] = 1
        /\ MapGet(t_map, oid[o]) = {}
        /\ oneshot[orx[o]].st = "rx_dropped"
        /\ reply = InternalError("Failed to send response")
        /\ \A w \in Workers : wpc[w] = "idle"

\* C14 (as claimed): is_expired answers true exactly when start + lifetime < now,
\* for every start and now, also when now is before start.
C14_ExpiryStrictNoWrap ==
    (probe.fn = "is_expired" /\ probe.out # "unset") =>
        probe.out = (IF probe.start + Lifetime < probe.now THEN "true" ELSE "false")

\* C15 (as claimed): on a roster without expired entries, the roster after two
\* gc() ticks in succession is the roster after the first one.
C15_GcIdempotent ==
    (probe.fn = "gc" /\ probe.ticks = 2 /\ ExpiredIds(probe.roster, probe.now) = <<>>)
        => probe.twice = probe.once

\* The Mutex a task is waiting for ("" when it waits for none).
WaitsForO(o) ==
    IF opc[o] \in {"reg_r", "get"} /\ locks.r # None THEN "r"
    ELSE IF opc[o] = "reg_t" /\ locks.t # None THEN "t" ELSE ""
WaitsForW(w) == IF wpc[w] = "dep" /\ locks.t # None THEN "t" ELSE ""
Waiting(task) ==
    \/ \E o \in Orchs : task = TaskO(o) /\ WaitsForO(o) # ""
    \/ \E w \in Workers : task = TaskW(w) /\ WaitsForW(w) # ""

\* C16: no task holds the Mutex of r_map and the Mutex of t_map at the same
\* time, and the holder of a Mutex is never itself waiting for a Mutex, so the
\* tasks that wait are never all waiting for one another.
C16_NoTwoLocksNoDeadlock ==
    /\ locks.r = None \/ locks.r # locks.t
    /\ locks.r # None => ~ Waiting(locks.r)
    /\ locks.t # None => ~ Waiting(locks.t)
\* Both Mutexes are held, by different tasks, while a third task waits for one
\* of them.
C16_Witness ==
    /\ locks.r # None
    /\ locks.t # None
    /\ locks.r # locks.t
    /\ \E o \in Orchs : WaitsForO(o) # ""

\* C17: send_request never waits (it can always run when the loop reaches it);
\* it returns Ok exactly when the buffer is empty and then buffers the pair, and
\* returns Err exactly when a pair is buffered and then leaves the buffer, r_map,
\* t_map, the oneshot channels and the roster as they were.
C17_TrySendFrame ==
    /\ [](\A o \in Orchs : opc[o] = "send" => ENABLED TrySend(o))
    /\ [][\A o \in Orchs :
            (opc[o] \in {"start", "send"} /\ opc'[o] # opc[o]) =>
               /\ Len(chan) = 0 =>
                    /\ opc'[o] = "reg_r"
                    /\ chan' = <<<<oid'[o], oevent'[o]>>>>
               /\ Len(chan) >= 1 =>
                    /\ opc'[o] = "spawn"
                    /\ UNCHANGED <<chan, sent, r_map, t_map, oneshot, roster>>]_vars
\* A try_send has found the pair of another call in the buffer while that call
\* had registered its halves, and the roster was not empty.
C17_Witness ==
    \E o, p \in Orchs :
        /\ opc[o] = "spawn"
        /\ chan = <<<<oid[p], oevent[p]>>>>
        /\ MapGet(r_map, oid[p]) # {}
        /\ MapGet(t_map, oid[p]) # {}
        /\ roster # <<>>

\* The polls that were dropped before recv_request returned.
CancelledPoll(w) == wpc[w] \in {"cancelled_lock", "cancelled_recv"}

\* C18: dropping a recv_request that waits (for the Mutex or in recv) takes no
\* message and gives the Mutex back: the buffer and what was received are as
\* before, the dropped poll holds no pair, every pair sent is still buffered or
\* was returned to exactly one poll that was not dropped, and the Mutex is only
\* ever held by a poll that is still in recv.
C18_CancelledRecvTakesNothing ==
    /\ [](rxOwner # None => wpc[rxOwner] = "recv")
    /\ [](\A w \in Workers : CancelledPoll(w) => wpair[w] = <<>>)
    /\ [](\A pr \in sent :
            \/ pr \in Range(chan) /\ recvCount[pr[1]] = 0
            \/ /\ pr \notin Range(chan)
               /\ recvCount[pr[1]] = 1
               /\ (\E w \in Workers : wpc[w] = "got" /\ wpair[w] = pr)
                    \/ pr[1] \notin {wpair[w][1] : w \in {v \in Workers : wpair[v] # <<>>}})
    /\ [][\A w \in Workers :
            (CancelledPoll(w)' /\ ~ CancelledPoll(w)) =>
                UNCHANGED <<chan, sent, received, recvCount, wpair>>]_vars
\* A poll was dropped while it held the Mutex in recv with a pair buffered: the
\* pair is still buffered and the Mutex is free for the poll queued behind it.
C18_Witness ==
    \E v, w \in Workers :
        /\ wpc[v] = "cancelled_recv"
        /\ wpc[w] = "lock"
        /\ rxOwner = None
        /\ Len(chan) = 1
        /\ recvCount[chan[1][1]] = 0

\* C19: get_response, called while r_map has no receiver under the id, returns
\* None at once, and get_response whose sender was dropped without a send
\* returns None as soon as it runs (rambda_handler then panics on the unwrap of
\* line 52); neither yields a response.
C19_AwaitGone ==
    /\ [](\A o \in Orchs : opc[o] = "get" => ENABLED GetR(o))
    /\ [](\A o \in Orchs :
            (opc[o] = "await" /\ oneshot[orx[o]].st = "closed") => ENABLED Await(o))
    /\ [][\A o \in Orchs :
            \/ opc[o] = "get" /\ opc'[o] # "get" /\ MapGet(r_map, oid[o]) = {}
            \/ opc[o] = "await" /\ opc'[o] # "await" /\ oneshot[orx[o]].st = "closed"
            => /\ opc'[o] = "panicked"
               /\ result'[o] = NoJson
               /\ returned' = returned]_vars
\* A get_response that was waiting has returned None after a second
\* add_new_request for the same id replaced, and so dropped, its sender.
C19_Witness ==
    \E o, p \in Orchs :
        /\ o # p
        /\ oid[o] = oid[p]
        /\ opc[o] = "panicked"
        /\ orx[o] = o
        /\ okDeposits[oid[o]] = <<>>
        /\ MapGet(t_map, oid[o]) = {p}

\* The client that received the pair of call o was killed before it posted.
KilledHolding(o) ==
    \E w \in Workers : wpc[w] = "killed" /\ wpair[w] = <<oid[o], oevent[o]>>

\* C20: once gc() has killed the client that received the pair of a call and had
\* not posted yet, no other client receives the pair, and for as long as nobody
\* else deposits under the id the call neither returns nor fails: it is still on
\* its way to, or in, the await of its response.
C20_KilledMidInvocationHangs ==
    \A o \in Orchs :
        KilledHolding(o) =>
            /\ recvCount[oid[o]] = 1
            /\ <<oid[o], oevent[o]>> \notin Range(chan)
            /\ \A w \in Workers : wpc[w] # "killed" => wpair[w] # <<oid[o], oevent[o]>>
            /\ okDeposits[oid[o]] = <<>> =>
                 /\ opc[o] \in {"reg_r", "reg_t", "get", "await"}
                 /\ result[o] = NoJson
                 /\ returned[oid[o]] = <<>>
\* The client that received the pair of a call was killed by gc(); the call is
\* in its await, the sender is still in t_map, nothing is buffered and the
\* other client is polling.
C20_Witness ==
    \E o \in Orchs, w \in Workers :
        /\ wpc[w] = "killed"
        /\ wpair[w] = <<oid[o], oevent[o]>>
        /\ opc[o] = "await"
        /\ MapGet(t_map, oid[o]) = {o}
        /\ chan = <<>>
        /\ gpc = "idle"
        /\ \E v \in Workers : wpc[v] = "recv"

\* C21: RuntimeManager::generate adds exactly the runtime the generator
\* returned, at the end of the roster, and leaves the entries that were there
\* and their order as they were; while it waits for the generator, and when the
\* generator returns an error, it does not touch the roster.
C21_GenerateAppendsOne ==
    [][\A o \in Orchs :
         /\ (opc[o] = "spawn" /\ opc'[o] = "add") =>
               /\ roster' = roster
               /\ ort'[o] = NewRuntime(clock)
         /\ (opc[o] = "spawn" /\ opc'[o] = "panicked") => roster' = roster
         /\ (opc[o] = "add" /\ opc'[o] # "add") =>
               /\ Len(roster') = Len(roster) + 1
               /\ SubSeq(roster', 1, Len(roster)) = roster
               /\ roster'[Len(roster')] = ort[o]]_vars
\* generate has added a runtime behind one that was started earlier, and its
\* caller is back at the loop condition.
C21_Witness ==
    \E o \in Orchs :
        /\ opc[o] = "send"
        /\ Len(roster) = 2
        /\ roster[1].start < roster[2].start
        /\ roster[2].start < clock

\* The deposit of the worker that received the pair of call o has failed.
WorkerDepositFailed(o) ==
    Posted(o) /\ ResponseOf(oevent[o]) \notin Range(okDeposits[oid[o]])
\* No rambda_handler call is in progress (send_response runs in one step, so no
\* response handler is in progress in any state).
Quiescent == \A o \in Orchs : opc[o] \in {"start", "done", "panicked"}

\* C22 (as claimed): once a call has returned or the deposit of its worker has
\* failed, r_map and t_map hold nothing under its id, and whenever no call is in
\* progress both maps are empty.
C22_NoHalvesLeft ==
    /\ \A o \in Orchs :
         (opc[o] = "done" \/ WorkerDepositFailed(o)) =>
            /\ MapGet(r_map, oid[o]) = {}
            /\ MapGet(t_map, oid[o]) = {}
    /\ Quiescent => (r_map = {} /\ t_map = {})

====
